---- MODULE Spec2Model ----
(***************************************************************************)
(* State-machine model of util/WeChatPush.py: the WeChatPush client, its   *)
(* pickled access-token cache file, and the two HTTP calls it makes        *)
(* (gettoken, message/send).  Strings that the code transforms are         *)
(* sequences of one-character strings; opaque tokens are TLA+ strings.     *)
(***************************************************************************)
EXTENDS Integers, Sequences, FiniteSets, TLC

VARIABLES
    now,          \* time.time(), in whole seconds
    file,         \* content of token_file on disk
    pc,           \* "start" | "ctor_raised" | "idle" | "auth" | "post"
    token_list,   \* self.token_list = token_str.split('#')
    access_token, \* self.access_token
    args,         \* (title, content) of the running / last send_message
    authReq,      \* the gettoken request in flight (or NoReq)
    post,         \* the message/send request of this invocation (or NoReq)
    result,       \* outcome of the last constructor / send_message call
    authResp,     \* answer to the gettoken call of this invocation
    postResp,     \* answer to the message/send call of this invocation
    instance,     \* number of WeChatPush objects constructed so far
    ctorCase,     \* what the constructor found in the cache file
    sendCount,    \* send_message calls on this instance (saturating at 2)
    authCalls,    \* gettoken calls issued by this invocation
    postCalls,    \* message/send calls issued by this invocation
    saves,        \* _save_access_token calls on this instance (saturating)
    okAuths,      \* gettoken successes with a non-empty token, this instance
    refreshed,    \* the cache file was written by _save_access_token
    pieces        \* the pieces the content argument was assembled from

vars == <<now, file, pc, token_list, access_token, args, authReq, post, result,
          authResp, postResp, instance, ctorCase, sendCount, authCalls,
          postCalls, saves, okAuths, refreshed, pieces>>

(***************************************************************************)
(* Bounds of the model.                                                    *)
(***************************************************************************)
MaxTime == 3
MaxTtl == 2
MaxInstances == 2
MaxPieces == 2

(***************************************************************************)
(* Python values and string functions.                                     *)
(***************************************************************************)
None == "None"

Truthy(tok) == tok # None /\ tok # ""

Min(a, b) == IF a < b THEN a ELSE b

Whitespace == {" ", "\n", "\t", "\r"}

Digits == {"0", "1", "2", "3", "4", "5", "6", "7", "8", "9"}

RECURSIVE Replace(_, _, _)
Replace(s, old, new) ==
    IF Len(s) < Len(old) THEN s
    ELSE IF SubSeq(s, 1, Len(old)) = old
         THEN new \o Replace(SubSeq(s, Len(old) + 1, Len(s)), old, new)
         ELSE <<Head(s)>> \o Replace(Tail(s), old, new)

RECURSIVE LStrip(_)
LStrip(s) ==
    IF s # <<>> /\ Head(s) \in Whitespace THEN LStrip(Tail(s)) ELSE s

RECURSIVE RStrip(_)
RStrip(s) ==
    IF s # <<>> /\ s[Len(s)] \in Whitespace
    THEN RStrip(SubSeq(s, 1, Len(s) - 1)) ELSE s

Strip(s) == RStrip(LStrip(s))

RECURSIVE Split(_, _)
Split(s, sep) ==
    IF \E i \in 1..Len(s) : s[i] = sep
    THEN LET i == CHOOSE k \in 1..Len(s) :
                      s[k] = sep /\ \A j \in 1..(k - 1) : s[j] # sep
         IN  <<SubSeq(s, 1, i - 1)>> \o Split(SubSeq(s, i + 1, Len(s)), sep)
    ELSE <<s>>

IntOk(s) ==
    LET t == Strip(s)
        u == IF t # <<>> /\ Head(t) \in {"+", "-"} THEN Tail(t) ELSE t
    IN  u # <<>> /\ \A i \in 1..Len(u) : u[i] \in Digits

RECURSIVE Flatten(_)
Flatten(ps) == IF ps = <<>> THEN <<>> ELSE Head(ps) \o Flatten(Tail(ps))

TagDivOpen == <<"<", "d", "i", "v", ">">>
TagDivClose == <<"<", "/", "d", "i", "v", ">">>
TagUlOpen == <<"<", "u", "l", ">">>
TagUlClose == <<"<", "/", "u", "l", ">">>
TagLiOpen == <<"<", "l", "i", ">">>
TagLiClose == <<"<", "/", "l", "i", ">">>
TagSpanOpen == <<"<", "s", "p", "a", "n", ">">>
TagSpanClose == <<"<", "/", "s", "p", "a", "n", ">">>

CleanDigestNoUlClose(content) ==
    Replace(Replace(Replace(Replace(Replace(Replace(Replace(content,
        TagDivOpen, <<>>), TagDivClose, <<>>),
        TagUlOpen, <<>>),
        TagLiOpen, <<>>), TagLiClose, <<>>),
        TagSpanOpen, <<"\n">>), TagSpanClose, <<>>)

CleanDigest(content) ==
    Replace(Replace(Replace(Replace(Replace(Replace(Replace(Replace(content,
        TagDivOpen, <<>>), TagDivClose, <<>>),
        TagUlOpen, <<>>), TagUlClose, <<>>),
        TagLiOpen, <<>>), TagLiClose, <<>>),
        TagSpanOpen, <<"\n">>), TagSpanClose, <<>>)

Digest(content) == Strip(CleanDigest(content))

ArticleTitle(title) == Replace(title, <<"\n">>, <<>>)

(***************************************************************************)
(* Inputs.                                                                 *)
(***************************************************************************)
FileTokens == {"tokA"}

ServerTokens == {"tokB"}

Tokens == FileTokens \cup ServerTokens

TokenStrs ==
    { <<"c", "#", "s", "#", "7">>,
      <<"c", "#", "s", "#", "x">>,
      <<"c", "#", "s">>,
      <<"c", "#", "s", "#", "1", "2", "#", "z">> }

Titles == { <<"T">>, <<"T", "\n", "U">> }

Tags == {TagDivOpen, TagDivClose, TagUlOpen, TagUlClose, TagLiOpen,
         TagLiClose, TagSpanOpen, TagSpanClose}

Texts == { <<"X">>, <<" ">> }

Fragments == { <<"<", "d">>, <<"i", "v", ">">> }

Pieces == Tags \cup Texts \cup Fragments

PieceSeqs == UNION { [1..n -> Pieces] : n \in 0..MaxPieces }

DivExample == <<TagDivOpen, <<"X">>, TagDivClose>>

SpanExample == <<TagSpanOpen, <<"A">>, TagSpanClose,
                 TagSpanOpen, <<"B">>, TagSpanClose>>

NestedExample == << <<"<", "d">>, TagDivOpen, <<"i", "v", ">">> >>

SampleContents == {DivExample}

AllContents == PieceSeqs \cup {DivExample, SpanExample, NestedExample}

(***************************************************************************)
(* The cache file.                                                         *)
(***************************************************************************)
FileOf(kind, tok, hasExp, exp) ==
    [kind |-> kind, access_token |-> tok, has_expire |-> hasExp,
     expire_time |-> exp]

Pickled(tok, exp) == FileOf("dict", tok, TRUE, exp)

InitFiles ==
    { FileOf(k, None, FALSE, 0) :
        k \in {"missing", "empty", "unreadable", "corrupt", "notdict"} }
    \cup { Pickled(t, e) : t \in FileTokens \cup {"", None}, e \in 0..MaxTime }
    \cup { FileOf("dict", t, FALSE, 0) : t \in FileTokens \cup {"", None} }

\* Outcome of _load_access_token at time t: the value returned, or the
\* exception that leaves the function.
LoadRaises(f, t) ==
    CASE f.kind = "unreadable" -> "PermissionError"
      [] f.kind = "corrupt" -> "UnpicklingError"
      [] f.kind = "notdict" -> "AttributeError"
      [] f.kind = "dict" /\ Truthy(f.access_token) /\ ~f.has_expire
            -> "TypeError"
      [] OTHER -> None

LoadValueIgnoringExpiry(f, t) ==
    IF f.kind = "dict" /\ Truthy(f.access_token) THEN f.access_token ELSE None

LoadValueNever(f, t) == None

LoadValue(f, t) ==
    IF f.kind = "dict" /\ Truthy(f.access_token) /\ f.has_expire
       /\ t < f.expire_time
    THEN f.access_token
    ELSE None

\* What the constructor met in the cache file.
CaseOf(f, t) ==
    CASE f.kind # "dict" -> f.kind
      [] f.kind = "dict" /\ ~f.has_expire -> "noexpiry"
      [] f.kind = "dict" /\ f.has_expire /\ f.access_token = None -> "notoken"
      [] f.kind = "dict" /\ f.has_expire /\ f.access_token # None
            /\ t >= f.expire_time -> "expired"
      [] f.kind = "dict" /\ f.has_expire /\ f.access_token = ""
            /\ t < f.expire_time -> "emptytoken"
      [] OTHER -> "valid"

(***************************************************************************)
(* HTTP answers.                                                           *)
(***************************************************************************)
NoReq == [kind |-> "none"]
NoResp == [kind |-> "none"]

NetErr == [kind |-> "neterr"]

AuthHttp(status, json, errcode, hasErrmsg, tok, ttl) ==
    [kind |-> "http", status |-> status, json |-> json, errcode |-> errcode,
     has_errmsg |-> hasErrmsg, access_token |-> tok, expires_in |-> ttl]

\* errcode -1 stands for a body without errcode, expires_in -1 for a body
\* without expires_in, access_token None for a body without access_token.
AuthResponses ==
    {NetErr}
    \cup {AuthHttp(500, FALSE, -1, FALSE, None, -1)}
    \cup {AuthHttp(200, FALSE, -1, FALSE, None, -1)}
    \cup {AuthHttp(200, TRUE, e, m, None, -1) :
            e \in {40013, -1}, m \in BOOLEAN}
    \cup {AuthHttp(500, TRUE, 0, FALSE, "tokB", 1)}
    \cup {AuthHttp(200, TRUE, 40013, TRUE, "tokB", 1)}
    \cup {AuthHttp(200, TRUE, 0, FALSE, t, x) :
            t \in ServerTokens \cup {"", None}, x \in (0..MaxTtl) \cup {-1}}

\* errcode is the application error code of a JSON body (0 when the body is
\* not JSON).
PostHttp(status, json, errcode) ==
    [kind |-> "http", status |-> status, json |-> json, errcode |-> errcode]

PostResponses ==
    {NetErr}
    \cup {PostHttp(s, FALSE, 0) : s \in {200, 500}}
    \cup {PostHttp(s, TRUE, e) : s \in {200, 500}, e \in {0, 42001}}

PostResultRaiseForStatus(r) ==
    CASE r.kind = "neterr" -> "ConnectionError"
      [] r.kind = "http" /\ r.status = 200 /\ r.json -> "json"
      [] r.kind = "http" /\ r.status = 200 /\ ~r.json -> "JSONDecodeError"
      [] OTHER -> "Exception"

\* What send_message does with the answer r of the message/send call: the
\* value it returns ("json" for the parsed body) or the exception it raises.
PostResult(r) ==
    CASE r.kind = "neterr" -> "ConnectionError"
      [] r.kind = "http" /\ r.status = 200 /\ r.json -> "json"
      [] r.kind = "http" /\ r.status = 200 /\ ~r.json -> "JSONDecodeError"
      [] OTHER -> "None"

Raised == {"IndexError", "PermissionError", "UnpicklingError",
           "AttributeError", "TypeError", "ConnectionError",
           "JSONDecodeError", "KeyError", "Exception", "ValueError"}

AuthRaisesNoStatusCheck(r) ==
    CASE r.kind = "neterr" -> "ConnectionError"
      [] r.kind = "http" /\ ~r.json -> "JSONDecodeError"
      [] r.kind = "http" /\ r.json /\ r.errcode # 0
            -> IF r.has_errmsg THEN "Exception" ELSE "KeyError"
      [] r.kind = "http" /\ r.json /\ r.errcode = 0
            /\ (r.access_token = None \/ r.expires_in = -1) -> "KeyError"
      [] OTHER -> None

AuthRaisesNoErrcodeCheck(r) ==
    CASE r.kind = "neterr" -> "ConnectionError"
      [] r.kind = "http" /\ r.status # 200 -> "Exception"
      [] r.kind = "http" /\ r.status = 200 /\ ~r.json -> "JSONDecodeError"
      [] r.kind = "http" /\ r.status = 200 /\ r.json
            /\ (r.access_token = None \/ r.expires_in = -1) -> "KeyError"
      [] OTHER -> None

\* The exception _get_access_token leaves with on answer r, or None when it
\* reaches _save_access_token.
AuthRaises(r) ==
    CASE r.kind = "neterr" -> "ConnectionError"
      [] r.kind = "http" /\ r.status # 200 -> "Exception"
      [] r.kind = "http" /\ r.status = 200 /\ ~r.json -> "JSONDecodeError"
      [] r.kind = "http" /\ r.status = 200 /\ r.json /\ r.errcode # 0
            -> IF r.has_errmsg THEN "Exception" ELSE "KeyError"
      [] r.kind = "http" /\ r.status = 200 /\ r.json /\ r.errcode = 0
            /\ (r.access_token = None \/ r.expires_in = -1) -> "KeyError"
      [] OTHER -> None

(***************************************************************************)
(* The client.                                                             *)
(***************************************************************************)
corpid == token_list[1]
corpsecret == token_list[2]
agentid == token_list[3]

NoArgs == [title |-> <<>>, content |-> <<>>]

TypeOK ==
    /\ now \in 0..MaxTime
    /\ pc \in {"start", "ctor_raised", "idle", "auth", "post"}
    /\ access_token \in Tokens \cup {"", None}
    /\ result \in Raised \cup {"none", "json", "None"}
    /\ instance \in 0..MaxInstances
    /\ sendCount \in 0..2 /\ saves \in 0..2 /\ okAuths \in 0..2
    /\ authCalls \in 0..1 /\ postCalls \in 0..1

Init ==
    /\ now = 0
    /\ file \in InitFiles
    /\ pc = "start"
    /\ token_list = <<>>
    /\ access_token = None
    /\ args = NoArgs
    /\ authReq = NoReq
    /\ post = NoReq
    /\ result = "none"
    /\ authResp = NoResp
    /\ postResp = NoResp
    /\ instance = 0
    /\ ctorCase = "none"
    /\ sendCount = 0
    /\ authCalls = 0
    /\ postCalls = 0
    /\ saves = 0
    /\ okAuths = 0
    /\ refreshed = FALSE
    /\ pieces = <<>>

\* time.time() advances between the steps of the program.
Tick ==
    /\ now < MaxTime
    /\ now' = now + 1
    /\ UNCHANGED <<file, pc, token_list, access_token, args, authReq, post,
                   result, authResp, postResp, instance, ctorCase, sendCount,
                   authCalls, postCalls, saves, okAuths, refreshed, pieces>>

\* WeChatPush.__init__(token_str), including its call of _load_access_token.
Construct(token_str) ==
    /\ pc \in {"start", "ctor_raised", "idle"}
    /\ instance < MaxInstances
    /\ instance' = instance + 1
    /\ token_list' = Split(token_str, "#")
    /\ IF Len(token_list') < 3
       THEN /\ pc' = "ctor_raised"
            /\ result' = "IndexError"
            /\ access_token' = None
            /\ ctorCase' = "none"
       ELSE /\ ctorCase' = CaseOf(file, now)
            /\ IF LoadRaises(file, now) # None
               THEN /\ pc' = "ctor_raised"
                    /\ result' = LoadRaises(file, now)
                    /\ access_token' = None
               ELSE /\ pc' = "idle"
                    /\ result' = "none"
                    /\ access_token' = LoadValue(file, now)
    /\ args' = NoArgs
    /\ authReq' = NoReq
    /\ post' = NoReq
    /\ authResp' = NoResp
    /\ postResp' = NoResp
    /\ sendCount' = 0
    /\ authCalls' = 0
    /\ postCalls' = 0
    /\ saves' = 0
    /\ okAuths' = 0
    /\ pieces' = <<>>
    /\ UNCHANGED <<now, file, refreshed>>

\* The JSON body send_message builds for token tok.
Payload(tok, title, content) ==
    [kind |-> "post", access_token |-> tok, touser |-> "@all",
     msgtype |-> "mpnews", agentid |-> Strip(agentid),
     title |-> ArticleTitle(title), content |-> content,
     digest |-> Digest(content)]

\* send_message from the point where _get_access_token has returned tok:
\* build the payload and issue the POST, or leave with int()'s ValueError.
Push(tok, title, content) ==
    IF IntOk(agentid)
    THEN /\ pc' = "post"
         /\ post' = Payload(tok, title, content)
         /\ postCalls' = 1
         /\ result' = "none"
    ELSE /\ pc' = "idle"
         /\ post' = NoReq
         /\ postCalls' = 0
         /\ result' = "ValueError"

HasTokenUnexpired == Truthy(access_token) /\ now < file.expire_time

\* The test _get_access_token makes before reusing self.access_token.
HasToken == Truthy(access_token)

\* send_message(title, content) up to its first network call.
SendMessage(title, ps) ==
    /\ pc = "idle"
    /\ args' = [title |-> title, content |-> Flatten(ps)]
    /\ pieces' = ps
    /\ sendCount' = Min(sendCount + 1, 2)
    /\ authResp' = NoResp
    /\ postResp' = NoResp
    /\ IF HasToken
       THEN /\ Push(access_token, title, Flatten(ps))
            /\ authReq' = NoReq
            /\ authCalls' = 0
       ELSE /\ pc' = "auth"
            /\ authReq' = [kind |-> "gettoken", corpid |-> corpid,
                           corpsecret |-> corpsecret]
            /\ authCalls' = 1
            /\ post' = NoReq
            /\ postCalls' = 0
            /\ result' = "none"
    /\ UNCHANGED <<now, file, token_list, access_token, instance, ctorCase,
                   saves, okAuths, refreshed>>

SavedFileNoTtl(tok, ttl, t) == Pickled(tok, t)

\* What _save_access_token(tok, ttl) pickles at time t.
SavedFile(tok, ttl, t) == Pickled(tok, t + ttl)

\* The gettoken call answers r: the rest of _get_access_token (with
\* _save_access_token) and of send_message up to the POST.
AuthReply(r) ==
    /\ pc = "auth"
    /\ authResp' = r
    /\ IF AuthRaises(r) # None
       THEN /\ pc' = "idle"
            /\ result' = AuthRaises(r)
            /\ UNCHANGED <<file, access_token, post, postCalls, saves,
                           okAuths, refreshed>>
       ELSE /\ file' = SavedFile(r.access_token, r.expires_in, now)
            /\ access_token' = r.access_token
            /\ refreshed' = TRUE
            /\ saves' = Min(saves + 1, 2)
            /\ okAuths' = IF r.access_token # ""
                          THEN Min(okAuths + 1, 2) ELSE okAuths
            /\ Push(r.access_token, args.title, args.content)
    /\ UNCHANGED <<now, token_list, args, authReq, postResp, instance,
                   ctorCase, sendCount, authCalls, pieces>>

\* The message/send call answers r: the end of send_message.
PostReply(r) ==
    /\ pc = "post"
    /\ postResp' = r
    /\ pc' = "idle"
    /\ result' = PostResult(r)
    /\ UNCHANGED <<now, file, token_list, access_token, args, authReq, post,
                   authResp, instance, ctorCase, sendCount, authCalls,
                   postCalls, saves, okAuths, refreshed, pieces>>

Next ==
    \/ Tick
    \/ \E ts \in TokenStrs : Construct(ts)
    \/ \E t \in Titles, ps \in SampleContents : SendMessage(t, ps)
    \/ \E r \in AuthResponses : AuthReply(r)
    \/ \E r \in PostResponses : PostReply(r)

Spec == Init /\ [][Next]_vars

(***************************************************************************)
(* The digest computation on its own: a client over a cache file with a    *)
(* live token sends one message per instance, with contents assembled     *)
(* from every piece sequence.                                              *)
(***************************************************************************)
InitDigest ==
    /\ Init
    /\ file = Pickled("tokA", 1)

NextDigest ==
    \/ Construct(<<"c", "#", "s", "#", "7">>)
    \/ \E ps \in AllContents : sendCount = 0 /\ SendMessage(<<"T">>, ps)
    \/ PostReply(PostHttp(200, TRUE, 0))

SpecDigest == InitDigest /\ [][NextDigest]_vars

(***************************************************************************)
(* Vocabulary of the properties.                                           *)
(***************************************************************************)
\* The gettoken call answered with a non-200 status or a non-zero errcode.
AuthFailed(r) ==
    r.kind = "http" /\ (r.status # 200 \/ (r.json /\ r.errcode # 0))

\* A step that is a call of send_message.
SendStep == \E t \in Titles, ps \in SampleContents : SendMessage(t, ps)

\* A step in which _save_access_token runs.
SaveStep == pc = "auth" /\ authResp' # NoResp /\ AuthRaises(authResp') = None

\* The last send_message is over and its _get_access_token returned a token.
TokenObtained ==
    /\ pc = "idle"
    /\ sendCount >= 1
    /\ authCalls = 0 \/ (authResp # NoResp /\ AuthRaises(authResp) = None)

FileErrors ==
    {"PermissionError", "UnpicklingError", "AttributeError", "TypeError"}

\* The plain text of a content given by its pieces: tags dropped, <span>
\* turned into a newline.
PlainPiece(p) ==
    IF p = TagSpanOpen THEN <<"\n">> ELSE IF p \in Tags THEN <<>> ELSE p

RECURSIVE PlainText(_)
PlainText(ps) ==
    IF ps = <<>> THEN <<>> ELSE PlainPiece(Head(ps)) \o PlainText(Tail(ps))

WholeTags(ps) == \A i \in 1..Len(ps) : ps[i] \notin Fragments

(***************************************************************************)
(* C1: a call of send_message reuses the cached token without a gettoken  *)
(* call only while the current time is before the expiry recorded for the *)
(* token, and once the expiry has passed the call authenticates.          *)
(***************************************************************************)
C1_ReuseOnlyBeforeExpiry ==
    [][SendStep =>
        /\ authCalls' = 0 => now < file.expire_time
        /\ (file.kind = "dict" /\ file.has_expire /\ now >= file.expire_time)
              => authCalls' = 1]_vars

(***************************************************************************)
(* C2: over a cache file whose token has expired, the first send_message  *)
(* issues exactly one gettoken call, and when it succeeds the file holds  *)
(* the new token with expiry now + expires_in before the POST is issued.  *)
(***************************************************************************)
C2_ExpiredCacheRefresh ==
    /\ [](ctorCase = "expired" /\ sendCount = 1 => authCalls = 1)
    /\ []((ctorCase = "expired" /\ sendCount = 1 /\ pc = "post")
            => /\ saves = 1
               /\ file.kind = "dict"
               /\ file.access_token = post.access_token
               /\ file.access_token = authResp.access_token)
    /\ [][(ctorCase = "expired" /\ sendCount = 1 /\ SaveStep)
            => file' = Pickled(authResp'.access_token,
                               now + authResp'.expires_in)]_vars

C2_Witness ==
    /\ ctorCase = "expired" /\ sendCount = 1 /\ pc = "post"
    /\ authCalls = 1 /\ post.access_token = "tokB"

(***************************************************************************)
(* C3: over a cache file with a non-empty token whose expiry is in the     *)
(* future, construction loads that token, and the following send_message   *)
(* posts with exactly that token, makes no gettoken call and does not      *)
(* rewrite the file.                                                       *)
(***************************************************************************)
C3_ValidCacheReused ==
    /\ []((ctorCase = "valid" /\ sendCount = 0 /\ pc = "idle")
            => access_token = file.access_token)
    /\ []((ctorCase = "valid" /\ sendCount = 1)
            => /\ authCalls = 0
               /\ saves = 0
               /\ pc = "post" => post.access_token = file.access_token)
    /\ [][(ctorCase = "valid" /\ instance' = instance /\ sendCount' <= 1)
            => file' = file]_vars

C3_Witness ==
    /\ ctorCase = "valid" /\ sendCount = 1 /\ pc = "post"
    /\ post.access_token = "tokA" /\ authCalls = 0

(***************************************************************************)
(* C4: when the gettoken call of a send_message answers with a non-200     *)
(* status or a non-zero errcode, the send_message ends with an exception   *)
(* and issues no POST.                                                     *)
(***************************************************************************)
C4_AuthFailureAborts ==
    (authResp # NoResp /\ AuthFailed(authResp))
        => /\ pc = "idle"
           /\ result \in Raised
           /\ postCalls = 0
           /\ post = NoReq

C4_Witness ==
    /\ authResp # NoResp /\ AuthFailed(authResp)
    /\ authResp.status = 200 /\ authResp.access_token = "tokB"
    /\ result = "Exception"

(***************************************************************************)
(* C5 as stated: with a token obtained, send_message issues exactly one    *)
(* POST, returns the parsed body exactly when the answer has status 200,   *)
(* and returns None without raising for any other status.                  *)
(***************************************************************************)
C5_Original ==
    TokenObtained
        => /\ postCalls = 1
           /\ postResp.kind = "http"
                => /\ (result = "json") <=> (postResp.status = 200)
                   /\ postResp.status # 200 => result = "None"

(***************************************************************************)
(* C5 amended: with a token obtained, send_message issues exactly one POST *)
(* when the agent id is an integer literal and none (ValueError)           *)
(* otherwise; it returns the parsed body exactly when the answer has       *)
(* status 200 and a JSON body, raises when a 200 answer's body is not      *)
(* JSON, and returns None without raising for any other status.            *)
(***************************************************************************)
C5_SendResult ==
    TokenObtained
        => /\ postCalls = (IF IntOk(agentid) THEN 1 ELSE 0)
           /\ postCalls = 0 => result = "ValueError"
           /\ postResp.kind = "http"
                => /\ (result = "json")
                        <=> (postResp.status = 200 /\ postResp.json)
                   /\ postResp.status # 200 => result = "None"
                   /\ (postResp.status = 200 /\ ~postResp.json)
                        => result = "JSONDecodeError"

C5_Witness ==
    /\ TokenObtained /\ postCalls = 1
    /\ postResp.kind = "http" /\ postResp.status = 500 /\ result = "None"

(***************************************************************************)
(* C6: the constructor never fails because of the cache file: whatever     *)
(* the file holds, loading yields no cached token rather than an error.    *)
(***************************************************************************)
C6_LoadNeverFails ==
    /\ pc = "ctor_raised" => result \notin FileErrors
    /\ (pc = "idle" /\ sendCount = 0 /\ ctorCase # "valid")
            => access_token = None

(***************************************************************************)
(* C7 as stated: after _save_access_token(token, ttl) at time now the file *)
(* holds {token, now + ttl}, the in-memory token is the persisted one and  *)
(* is the token _get_access_token returns; a client constructed over the   *)
(* file before now + ttl loads that token.                                 *)
(***************************************************************************)
C7_Original ==
    [][/\ SaveStep
            => /\ file' = Pickled(authResp'.access_token,
                                  now + authResp'.expires_in)
               /\ access_token' = file'.access_token
               /\ pc' = "post" => post'.access_token = access_token'
       /\ (refreshed /\ instance' # instance /\ pc' = "idle"
             /\ now < file.expire_time)
            => access_token' = file.access_token]_vars

(***************************************************************************)
(* C7 amended: as stated, except that a client constructed over the file   *)
(* before now + ttl loads the persisted token only when it is non-empty;   *)
(* a persisted empty token loads as no cached token.                       *)
(***************************************************************************)
C7_SaveThenLoad ==
    [][/\ SaveStep
            => /\ file' = Pickled(authResp'.access_token,
                                  now + authResp'.expires_in)
               /\ access_token' = file'.access_token
               /\ pc' = "post" => post'.access_token = access_token'
       /\ (refreshed /\ instance' # instance /\ pc' = "idle"
             /\ now < file.expire_time)
            => access_token' = (IF file.access_token # ""
                                THEN file.access_token ELSE None)]_vars

C7_Witness ==
    /\ refreshed /\ instance = 2 /\ pc = "idle" /\ sendCount = 0
    /\ access_token = "tokB" /\ file.access_token = "tokB"

(***************************************************************************)
(* C8 as stated: the digest of the payload is the content with the tags    *)
(* <div> </div> <ul> </ul> <li> </li> </span> deleted and <span> replaced  *)
(* by a newline, so <div>X</div> gives X and                               *)
(* <span>A</span><span>B</span> gives \nA\nB; the content field is the     *)
(* input content.                                                          *)
(***************************************************************************)
C8_Original ==
    post.kind = "post"
        => /\ post.content = Flatten(pieces)
           /\ WholeTags(pieces) => post.digest = PlainText(pieces)
           /\ pieces = DivExample => post.digest = <<"X">>
           /\ pieces = SpanExample
                => post.digest = <<"\n", "A", "\n", "B">>

(***************************************************************************)
(* C8 amended: the digest is the content with those tags deleted and       *)
(* <span> replaced by a newline, and then stripped of leading and trailing *)
(* whitespace, so <div>X</div> gives X and <span>A</span><span>B</span>    *)
(* gives A\nB; the content field is the input content.                     *)
(***************************************************************************)
C8_DigestStripped ==
    post.kind = "post"
        => /\ post.content = Flatten(pieces)
           /\ WholeTags(pieces) => post.digest = Strip(PlainText(pieces))
           /\ pieces = DivExample => post.digest = <<"X">>
           /\ pieces = SpanExample => post.digest = <<"A", "\n", "B">>

C8_Witness ==
    /\ post.kind = "post" /\ pieces = SpanExample
    /\ post.digest = <<"A", "\n", "B">>

(***************************************************************************)
(* C9: a gettoken call that answers with a non-200 status or a non-zero    *)
(* errcode leaves the cache file and the in-memory token as they were, and *)
(* the next send_message on the client issues a gettoken call again.       *)
(***************************************************************************)
C9_FailedAuthFrame ==
    [][/\ (pc = "auth" /\ authResp' # NoResp /\ AuthFailed(authResp'))
            => file' = file /\ access_token' = access_token
       /\ (authResp # NoResp /\ AuthFailed(authResp) /\ SendStep)
            => pc' = "auth" /\ authCalls' = 1]_vars

C9_Witness ==
    /\ authResp # NoResp /\ AuthFailed(authResp)
    /\ pc = "idle" /\ file.kind = "dict" /\ file.access_token = "tokA"
    /\ access_token = None

====
